---- MODULE Spec2Model ----
(***************************************************************************)
(* State-machine model of DPXInput (src/dpx.imageio/dpxinput.cpp): one     *)
(* decoder instance driven by open / seek_subimage / read_native_scanlines *)
(* / close calls over a small family of DPX files.                         *)
(***************************************************************************)
EXTENDS Integers, Sequences, FiniteSets, TLC

(***************************************************************************)
(* Bounds of the model.                                                    *)
(***************************************************************************)
\* files hold 0..MaxElements image elements (the format allows up to 8)
MaxElements == 2
\* image height of the files, in scanlines
MaxHeight == 1
\* image width of the files, in pixels
MaxWidth == 1

(***************************************************************************)
(* Program constants.                                                      *)
(***************************************************************************)
\* 0xFFFFFFFF, the "unset" value of a 32-bit header field.  A 32-bit
\* unsigned field is held as the signed integer with the same 32 bits, so
\* 0x80000000..0xFFFFFFFF are the negative values and 0xFFFFFFFF is -1.
Unset32 == -1
\* (char)0xFF, the "unset" first byte of a fixed-length string
UnsetByte == 255
\* the size in bytes of the header's format field
FormatSize == 32
\* 0xFFFFFFFE, a 32-bit value above std::numeric_limits<int>::max() that is
\* not the sentinel (held, like Unset32, as the signed integer of its bits)
AboveIntMax == -2

(***************************************************************************)
(* Header data (m_dpx.header).  A fixed-length string field is modelled by *)
(* its first byte: 0 (empty), 65 (ordinary text) or 255 (unset sentinel).  *)
(***************************************************************************)
StrBytes == {0, 65, UnsetByte}

\* the global fixed-length string fields read by seek_subimage
StrFields ==
    {"copyright", "creator", "project", "creationTimeDate", "version",
     "format", "frameId", "slateInfo", "sourceImageFileName", "inputDevice",
     "inputDeviceSerialNumber", "filmManufacturingIdCode", "sourceTimeDate"}

\* the global 32-bit fields read through DPX_SET_ATTRIB_INT
IntFields ==
    {"EncryptKey", "DittoKey", "FramePosition", "SequenceLength", "HeldCount"}

\* the per-element 32-bit fields read through DPX_SET_ATTRIB_INT_N
ElemIntFields ==
    {"LowData", "HighData", "EndOfLinePadding", "EndOfImagePadding"}

\* the global 32-bit fields seek_subimage reads itself (yOffset is a field
\* of its own in the header record)
OtherIntFields ==
    {"timeCode", "userBits", "xOffset", "xOriginalSize", "yOriginalSize",
     "aspectRatio0", "aspectRatio1"}

\* the NUL byte that pads a fixed-length string field
NUL == "NUL"

\* the bytes of the format field, which the header record holds as its
\* text (a sequence of characters): the text, NUL-padded to FormatSize
FormatField(name) ==
    [i \in 1..FormatSize |-> IF i <= Len(name) THEN name[i] ELSE NUL]

\* every 32-bit field holding the same value
AllInts(v) == [f \in IntFields \cup OtherIntFields |-> v]
AllElemInts(v) == [f \in ElemIntFields |-> v]

Elem(size, desc, description) ==
    [size |-> size, sign |-> FALSE, desc |-> desc, description |-> description,
     ints |-> AllElemInts(Unset32)]

Hdr(chan, yOffset, userSize, strs) ==
    [numberOfElements |-> Len(chan), chan |-> chan, height |-> MaxHeight,
     width |-> MaxWidth, yOffset |-> yOffset, userSize |-> userSize,
     strs |-> strs, ints |-> AllInts(Unset32), format |-> <<>>]

\* the header of a default-constructed dpx::Reader: no image element defined
DefaultHeader ==
    [numberOfElements |-> 65535, chan |-> <<>>, height |-> Unset32,
     width |-> Unset32, yOffset |-> Unset32, userSize |-> Unset32,
     strs |-> [f \in StrFields |-> 0], ints |-> AllInts(Unset32),
     format |-> <<>>]

\* the format's limit on image elements per file
MAX_ELEMENTS == 8

\* ImageElementCount(): the count field, 0 when it is out of 1..MAX_ELEMENTS
ImageElementCount(h) ==
    IF h.numberOfElements >= 1 /\ h.numberOfElements <= MAX_ELEMENTS
    THEN h.numberOfElements ELSE 0

ComponentDataSize(h, subimage) == h.chan[subimage + 1].size
DataSign(h, subimage) == h.chan[subimage + 1].sign
ImageDescriptor(h, subimage) == h.chan[subimage + 1].desc
UserSize(h) == h.userSize
Width(h) == h.width
Height(h) == h.height

\* the accessor of a global 32-bit field: the field as stored
IntField(h, f) == h.ints[f]
\* the accessor of a per-element 32-bit field: the field as stored
ElemIntField(h, subimage, f) == h.chan[subimage + 1].ints[f]
\* AspectRatio(i): numerator (0) or denominator (1), as stored
AspectRatio(h, i) ==
    IF i = 0 THEN h.ints["aspectRatio0"] ELSE h.ints["aspectRatio1"]

\* ImageElementComponentCount(): components stored per pixel
ImageElementComponentCount(h, subimage) ==
    LET d == ImageDescriptor(h, subimage) IN
    CASE d \in {"kRed", "kGreen", "kBlue", "kAlpha", "kLuma", "kDepth"} -> 1
      [] d = "kCbYCrY" -> 2
      [] d \in {"kRGB", "kCbYACrYA", "kCbYCr"} -> 3
      [] d \in {"kRGBA", "kABGR", "kCbYCrA"} -> 4
      [] OTHER -> 1

\* Description(subimage, desc): first byte of the element's description
Description(h, subimage) == h.chan[subimage + 1].description

\* FilmEdgeCode(filmedge): empty when the film fields are unset
FilmEdgeCode(h) ==
    IF h.strs["filmManufacturingIdCode"] = UnsetByte THEN 0
    ELSE h.strs["filmManufacturingIdCode"]

(***************************************************************************)
(* ImageSpec pieces.                                                       *)
(***************************************************************************)
\* a default-constructed ImageSpec
DefaultSpec ==
    [height |-> 0, nchannels |-> 0, format |-> "UNKNOWN", x |-> 0, y |-> 0,
     full_width |-> 0, full_height |-> 0,
     channelnames |-> <<>>, alpha_channel |-> -1, z_channel |-> -1,
     attrs |-> {}, values |-> {}, keycode |-> <<>>, userdata |-> <<>>]

\* ImageSpec::default_channel_names()
default_channel_names(n) ==
    SubSeq(<<"R", "G", "B", "A">>, 1, n)

\* the switch on ComponentDataSize at the top of seek_subimage
TypeDescOf(size, sign) ==
    CASE size = "kByte" -> IF sign THEN "INT8" ELSE "UINT8"
      [] size = "kWord" -> IF sign THEN "INT16" ELSE "UINT16"
      [] size = "kInt" -> IF sign THEN "INT32" ELSE "UINT32"
      [] size = "kFloat" -> "FLOAT"
      [] size = "kDouble" -> "DOUBLE"
      [] OTHER -> "INVALID"

\* m_spec.nchannels after the switch on the descriptor
NChannels(h, subimage, rawcolor) ==
    LET d == ImageDescriptor(h, subimage) IN
    CASE d = "kCbYCrY" /\ ~rawcolor -> 3
      [] d = "kCbYACrYA" /\ ~rawcolor -> 4
      [] OTHER -> ImageElementComponentCount(h, subimage)

\* m_spec.channelnames after the switch on the descriptor
ChannelNames(h, subimage, rawcolor) ==
    LET d == ImageDescriptor(h, subimage)
        n == NChannels(h, subimage, rawcolor)
    IN CASE d = "kRed" -> <<"R">>
         [] d = "kGreen" -> <<"G">>
         [] d = "kBlue" -> <<"B">>
         [] d = "kAlpha" -> <<"A">>
         [] d = "kLuma" -> <<"Y">>
         [] d = "kDepth" -> <<"Z">>
         [] d \in {"kRGB", "kRGBA", "kABGR"} -> default_channel_names(n)
         [] d = "kCbYCrY" ->
              IF rawcolor THEN <<"CbCr", "Y">> ELSE default_channel_names(n)
         [] d = "kCbYACrYA" ->
              IF rawcolor THEN <<"CbCr", "Y", "A">> ELSE default_channel_names(n)
         [] d = "kCbYCr" ->
              IF rawcolor THEN <<"Cb", "Y", "Cr">> ELSE default_channel_names(n)
         [] d = "kCbYCrA" ->
              IF rawcolor THEN <<"Cb", "Y", "Cr", "A">>
              ELSE default_channel_names(n)
         [] OTHER -> [i \in 1..n |-> "channel" \o ToString(i - 1)]

AlphaChannel(h, subimage, rawcolor) ==
    LET d == ImageDescriptor(h, subimage) IN
    CASE d = "kAlpha" -> 0
      [] d = "kCbYACrYA" /\ rawcolor -> 2
      [] d = "kCbYCrA" /\ rawcolor -> 3
      [] d \in {"kRGBA", "kABGR"} \/ (d \in {"kCbYACrYA", "kCbYCrA"} /\ ~rawcolor) -> 3
      [] OTHER -> -1

ZChannel(h, subimage) ==
    IF ImageDescriptor(h, subimage) = "kDepth" THEN 0 ELSE -1

\* attributes set whatever the header holds
FixedAttrs ==
    {"oiio:BitsPerSample", "Orientation", "oiio:subimages", "dpx:Transfer",
     "dpx:Colorimetric", "PixelAspectRatio", "dpx:ImageDescriptor"}

\* if (x[0] && x[0] != (char)0xFF)
StrSet(b) == b # 0 /\ b # UnsetByte
\* if (x[0])
StrNonEmpty(b) == b # 0

\* the string-valued attributes seek_subimage sets, by header field
StringAttrs(h, subimage) ==
       {a \in {"Copyright"} : StrSet(h.strs["copyright"])}
  \cup {a \in {"Software"} : StrSet(h.strs["creator"])}
  \cup {a \in {"DocumentName"} : StrSet(h.strs["project"])}
  \cup {a \in {"DateTime"} : StrNonEmpty(h.strs["creationTimeDate"])}
  \cup {a \in {"ImageDescription"} : StrSet(Description(h, subimage))}
  \cup {a \in {"dpx:Version"} : StrSet(h.strs["version"])}
  \cup {a \in {"dpx:Format"} : StrSet(h.strs["format"])}
  \cup {a \in {"dpx:FrameId"} : StrSet(h.strs["frameId"])}
  \cup {a \in {"dpx:SlateInfo"} : StrSet(h.strs["slateInfo"])}
  \cup {a \in {"dpx:SourceImageFileName"} :
            StrSet(h.strs["sourceImageFileName"])}
  \cup {a \in {"dpx:InputDevice"} : StrSet(h.strs["inputDevice"])}
  \cup {a \in {"dpx:InputDeviceSerialNumber"} :
            StrSet(h.strs["inputDeviceSerialNumber"])}
  \cup {a \in {"smpte:KeyCode"} :
            StrNonEmpty(h.strs["filmManufacturingIdCode"])}
  \cup {a \in {"dpx:SourceDateTime"} : StrNonEmpty(h.strs["sourceTimeDate"])}
  \cup {a \in {"dpx:FilmEdgeCode"} : StrNonEmpty(FilmEdgeCode(h))}

\* std::string == const char*: same length and same characters
StrEq(str, lit) == str = lit

\* Strutil::starts_with(str, prefix)
starts_with(str, prefix) ==
    Len(str) >= Len(prefix) /\ SubSeq(str, 1, Len(prefix)) = prefix

\* DPXInput::get_keycode_values: array[5] (perfsPerFrame) and array[6]
\* (perfsPerCount), from std::string format(m_dpx.header.format, 32)
get_keycode_values(h) ==
    LET format == SubSeq(FormatField(h.format), 1, FormatSize) IN
    IF StrEq(format, <<"8", "k", "i", "m", "a", "x">>) THEN <<15, 120>>
    ELSE IF starts_with(format, <<"2", "k", "v", "v">>)
         \/ starts_with(format, <<"4", "k", "v", "v">>) THEN <<8, 64>>
    ELSE IF StrEq(format, <<"V", "i", "s", "t", "a", "V", "i", "s", "i", "o",
                            "n">>) THEN <<8, 64>>
    ELSE IF starts_with(format, <<"2", "k", "3", "5">>)
              \/ starts_with(format, <<"4", "k", "3", "5">>) THEN <<4, 64>>
    ELSE IF StrEq(format, <<"F", "u", "l", "l", " ", "A", "p", "e", "r", "t",
                            "u", "r", "e">>) THEN <<4, 64>>
    ELSE IF StrEq(format, <<"A", "c", "a", "d", "e", "m", "y">>) THEN <<4, 64>>
    ELSE IF starts_with(format, <<"2", "k", "3", "p", "e", "r", "f">>)
              \/ starts_with(format, <<"4", "k", "3", "p", "e", "r", "f">>)
         THEN <<3, 64>>
    ELSE IF StrEq(format, <<"3", "p", "e", "r", "f">>) THEN <<3, 64>>
    ELSE <<4, 64>>

\* u <= (unsigned int)std::numeric_limits<int>::max()
FitsInt(u) == u >= 0

\* (int)u > 0
PositiveInt(u) == u > 0

\* if (m_dpx.header.x() != 0xFFFFFFFF)
IntSet(u) == u # Unset32

\* the attributes seek_subimage computes from 32-bit header fields: pairs of
\* the attribute's name and the header values its value is made of
IntAttrs(h, subimage) ==
       {<<"dpx:" \o f, <<IntField(h, f)>>>> :
            f \in {g \in IntFields : IntSet(IntField(h, g))}}
  \cup {<<"dpx:" \o f, <<ElemIntField(h, subimage, f)>>>> :
            f \in {g \in ElemIntFields :
                      IntSet(ElemIntField(h, subimage, g))}}
  \cup {<<"PixelAspectRatio",
          IF AspectRatio(h, 1) # 0
          THEN <<AspectRatio(h, 0), AspectRatio(h, 1)>> ELSE <<>> >>}
  \cup {p \in {<<"smpte:TimeCode", <<h.ints["timeCode"], h.ints["userBits"]>>>>,
               <<"dpx:TimeCode", <<h.ints["timeCode"], h.ints["userBits"]>>>>} :
            IntSet(h.ints["timeCode"])}
  \cup {p \in {<<"dpx:UserBits", <<h.ints["userBits"]>>>>} :
            IntSet(h.ints["userBits"])}

\* m_spec as seek_subimage leaves it for element `subimage`
BuildSpec(h, subimage, rawcolor, userBuf) ==
    [height |-> Height(h),
     nchannels |-> NChannels(h, subimage, rawcolor),
     format |-> TypeDescOf(ComponentDataSize(h, subimage),
                           DataSign(h, subimage)),
     x |-> IF FitsInt(h.ints["xOffset"]) THEN h.ints["xOffset"] ELSE 0,
     y |-> IF FitsInt(h.yOffset) THEN h.yOffset ELSE 0,
     full_width |-> IF PositiveInt(h.ints["xOriginalSize"])
                    THEN h.ints["xOriginalSize"] ELSE Width(h),
     full_height |-> IF PositiveInt(h.ints["yOriginalSize"])
                     THEN h.ints["yOriginalSize"] ELSE Height(h),
     channelnames |-> ChannelNames(h, subimage, rawcolor),
     alpha_channel |-> AlphaChannel(h, subimage, rawcolor),
     z_channel |-> ZChannel(h, subimage),
     attrs |-> FixedAttrs \cup StringAttrs(h, subimage)
               \cup {a \in {"dpx:UserData"} : userBuf # <<>>},
     values |-> IntAttrs(h, subimage),
     keycode |-> IF StrNonEmpty(h.strs["filmManufacturingIdCode"])
                 THEN get_keycode_values(h) ELSE <<>>,
     userdata |-> userBuf]

(***************************************************************************)
(* Files the host can hand to open().                                      *)
(***************************************************************************)
AllText == [f \in StrFields |-> 65]

\* the image elements the files are built from
LumaElem == Elem("kByte", "kLuma", 65)
ElemVariants ==
    {LumaElem, Elem("kByte", "kCbYCrY", 65), Elem("kBadSize", "kRGB", 65)}

\* element lists of MaxElements elements: luma elements and at most one
\* element of another kind, at any position
ElemLists ==
    {[i \in 1..MaxElements |-> IF i = k THEN e ELSE LumaElem] :
        k \in 1..MaxElements, e \in ElemVariants}

File(exists, magic, complete, short, hdr) ==
    [exists |-> exists, magic |-> magic, complete |-> complete,
     short |-> short, hdr |-> hdr]

BaseChan == <<Elem("kByte", "kRGB", 65)>>
BaseHdr == Hdr(BaseChan, 0, 0, AllText)

\* well-formed multi-element files, without user data
ElemFiles ==
    {File(TRUE, TRUE, TRUE, FALSE, Hdr(c, 0, 0, AllText)) : c \in ElemLists}

\* plain RGB; 4:2:2 alone; RGB and luma with a user-data block and the image
\* starting at row 1; RGB with the y offset and the user-data size unset
OtherFiles ==
    {File(TRUE, TRUE, TRUE, FALSE, BaseHdr),
     File(TRUE, TRUE, TRUE, FALSE,
          Hdr(<<Elem("kByte", "kCbYCrY", 65)>>, 0, 0, AllText)),
     File(TRUE, TRUE, TRUE, FALSE,
          Hdr(<<Elem("kByte", "kRGB", 65), LumaElem>>, 1, 2, AllText)),
     File(TRUE, TRUE, TRUE, FALSE, Hdr(BaseChan, Unset32, Unset32, AllText))}

\* one-element files with one string field empty or unset
StrFiles ==
    {File(TRUE, TRUE, TRUE, FALSE,
          Hdr(BaseChan, 0, 0, [AllText EXCEPT ![f] = b])) :
        f \in StrFields, b \in StrBytes}
    \cup
    {File(TRUE, TRUE, TRUE, FALSE,
          Hdr(<<Elem("kByte", "kRGB", b)>>, 0, 0, AllText)) :
        b \in StrBytes}

\* the values a 32-bit field takes besides an ordinary one: the sentinel,
\* zero where the code tests for it, and for the x offset a value that is
\* not the sentinel but does not fit an int
IntVals(f) ==
    CASE f \in {"aspectRatio1", "xOriginalSize", "yOriginalSize"}
           -> {0, Unset32}
      [] f = "xOffset" -> {Unset32, AboveIntMax}
      [] OTHER -> {Unset32}

\* a one-element file with every 32-bit field holding an ordinary value
IntElem == [Elem("kByte", "kRGB", 65) EXCEPT !.ints = AllElemInts(5)]
IntHdr == [Hdr(<<IntElem>>, 0, 0, AllText) EXCEPT !.ints = AllInts(5)]

\* one-element files: every field ordinary, and one 32-bit field varied
IntFiles ==
    {File(TRUE, TRUE, TRUE, FALSE, IntHdr)}
    \cup
    UNION {{File(TRUE, TRUE, TRUE, FALSE, [IntHdr EXCEPT !.ints[f] = v]) :
               v \in IntVals(f)} : f \in IntFields \cup OtherIntFields}
    \cup
    UNION {{File(TRUE, TRUE, TRUE, FALSE,
                 [IntHdr EXCEPT !.chan = <<[IntElem EXCEPT !.ints[f] = v]>>]) :
               v \in IntVals(f)} : f \in ElemIntFields}
    \cup
    {File(TRUE, TRUE, TRUE, FALSE, [IntHdr EXCEPT !.yOffset = v]) :
        v \in {Unset32, AboveIntMax}}

\* format names: the ones get_keycode_values knows, two with a suffix, and
\* one it does not know
FormatNames ==
    {<<"8", "k", "i", "m", "a", "x">>,
     <<"2", "k", "v", "v">>, <<"4", "k", "v", "v">>,
     <<"V", "i", "s", "t", "a", "V", "i", "s", "i", "o", "n">>,
     <<"2", "k", "3", "5">>, <<"4", "k", "3", "5">>,
     <<"F", "u", "l", "l", " ", "A", "p", "e", "r", "t", "u", "r", "e">>,
     <<"A", "c", "a", "d", "e", "m", "y">>,
     <<"2", "k", "3", "p", "e", "r", "f">>,
     <<"4", "k", "3", "p", "e", "r", "f">>,
     <<"3", "p", "e", "r", "f">>,
     <<"2", "k", "v", "v", "_", "a">>, <<"3", "p", "e", "r", "f", "s">>,
     <<"S", "u", "p", "e", "r", "8">>}

\* one-element files with a film keycode and the format field varied
FormatFiles ==
    {File(TRUE, TRUE, TRUE, FALSE,
          [BaseHdr EXCEPT !.format = name]) :
        name \in FormatNames}

\* two-element files for the threaded reads: RGB and luma with a user-data
\* block and a y origin, and 4:2:2 with luma
ThreadFiles ==
    {File(TRUE, TRUE, TRUE, FALSE,
          Hdr(<<Elem("kByte", "kRGB", 65), LumaElem>>, 1, 2, AllText)),
     File(TRUE, TRUE, TRUE, FALSE,
          Hdr(<<Elem("kByte", "kCbYCrY", 65), LumaElem>>, 0, 0, AllText))}

\* a missing file, a bad magic cookie, a truncated header, truncated pixels,
\* and a header whose element count field is corrupt
BadFiles ==
    {File(FALSE, TRUE, TRUE, FALSE, BaseHdr),
     File(TRUE, FALSE, TRUE, FALSE, BaseHdr),
     File(TRUE, TRUE, FALSE, FALSE, BaseHdr),
     File(TRUE, TRUE, TRUE, TRUE, BaseHdr),
     File(TRUE, TRUE, TRUE, FALSE,
          [BaseHdr EXCEPT !.numberOfElements = 65535])}

\* the files of a family: the decoder life cycle runs over "elements", the
\* string metadata over "strings", the 32-bit metadata over "ints", the
\* keycode decomposition over "formats"
FilesOf(fam) ==
    CASE fam = "strings" -> StrFiles
      [] fam = "ints" -> IntFiles
      [] fam = "formats" -> FormatFiles
      [] fam = "threads" -> ThreadFiles
      [] OTHER -> ElemFiles \cup OtherFiles \cup BadFiles

(***************************************************************************)
(* The decoder instance.                                                   *)
(***************************************************************************)
VARIABLES
    m_subimage,     \* int m_subimage
    m_stream,       \* InStream* m_stream (and the stream m_dpx reads from)
    m_header,       \* m_dpx.header
    m_userBuf,      \* std::vector<unsigned char> m_userBuf
    m_rawcolor,     \* bool m_rawcolor
    m_decodebuf,    \* size of std::vector<unsigned char> m_decodebuf
    m_spec,         \* ImageInput::m_spec
    call,           \* the last call made on the instance and what it did
    userDataRead,   \* whether ReadUserData was called in the instance's life
    reader,         \* the thread holding the instance's lock, and its read
    family          \* the family of files the host opens

vars == <<m_subimage, m_stream, m_header, m_userBuf, m_rawcolor, m_decodebuf,
          m_spec, call, userDataRead, reader, family>>

NoStream == [open |-> FALSE, short |-> FALSE]
StreamOf(file) == [open |-> TRUE, short |-> file.short]

\* the instance as one record, for the operators below
Self ==
    [m_subimage |-> m_subimage, m_stream |-> m_stream, m_header |-> m_header,
     m_userBuf |-> m_userBuf, m_rawcolor |-> m_rawcolor,
     m_decodebuf |-> m_decodebuf, m_spec |-> m_spec]

\* DPXInput::init(): m_dpx.header and m_spec are not touched
init(s) ==
    [s EXCEPT !.m_subimage = -1, !.m_stream = NoStream, !.m_userBuf = <<>>,
              !.m_rawcolor = FALSE]

\* DPXInput::DPXInput()
Constructed ==
    init([m_subimage |-> 0, m_stream |-> NoStream, m_header |-> DefaultHeader,
          m_userBuf |-> <<>>, m_rawcolor |-> FALSE, m_decodebuf |-> 0,
          m_spec |-> DefaultSpec])

\* m_dpx.ReadHeader(): the magic cookie is valid and the header is complete
ReadHeader(file) == file.magic /\ file.complete

\* m_dpx.ReadUserData(&m_userBuf[0]) into the zero-filled, resized buffer
ReadUserData(stream, size) ==
    [i \in 1..size |-> IF stream.open THEN 7 ELSE 0]

\* a seek_subimage that lost its early return for the selected subimage
AlreadySelected_Never(s, subimage) == FALSE

\* if (subimage == m_subimage) return true;
AlreadySelected(s, subimage) == subimage = s.m_subimage

\* if (subimage < 0 || subimage >= m_dpx.header.ImageElementCount())
OutOfRange(s, subimage) ==
    subimage < 0 \/ subimage >= ImageElementCount(s.m_header)

\* a seek_subimage that reads the user data without looking at the cache
NeedUserData_NoCacheCheck(s) ==
    /\ UserSize(s.m_header) # 0
    /\ UserSize(s.m_header) # Unset32

\* if (m_userBuf.empty() && UserSize() != 0 && UserSize() != 0xFFFFFFFF)
NeedUserData(s) ==
    /\ s.m_userBuf = <<>>
    /\ UserSize(s.m_header) # 0
    /\ UserSize(s.m_header) # Unset32

\* if (m_spec.nchannels == 1) m_rawcolor = true;
RawColorAfterSeek(rawcolor, nchannels) == rawcolor \/ nchannels = 1

SeekResult(s, ret, reads) == [st |-> s, ret |-> ret, userReads |-> reads]

\* DPXInput::seek_subimage(subimage, miplevel)
seek_subimage(s, subimage, miplevel) ==
    IF miplevel # 0 THEN SeekResult(s, FALSE, 0)
    ELSE IF AlreadySelected(s, subimage) THEN SeekResult(s, TRUE, 0)
    ELSE IF OutOfRange(s, subimage) THEN SeekResult(s, FALSE, 0)
    ELSE
      LET h == s.m_header
          s1 == [s EXCEPT !.m_subimage = subimage]
          typedesc == TypeDescOf(ComponentDataSize(h, subimage),
                                 DataSign(h, subimage))
          reads == IF NeedUserData(s1) THEN 1 ELSE 0
          buf == IF NeedUserData(s1)
                 THEN ReadUserData(s1.m_stream, UserSize(h))
                 ELSE s1.m_userBuf
          spec == BuildSpec(h, subimage, s1.m_rawcolor, buf)
      IN IF typedesc = "INVALID" THEN SeekResult(s1, FALSE, 0)
         ELSE SeekResult(
                [s1 EXCEPT !.m_userBuf = buf, !.m_spec = spec,
                           !.m_rawcolor =
                               RawColorAfterSeek(s1.m_rawcolor, spec.nchannels)],
                TRUE, reads)

\* DPXInput::close()
close(s) == init(s)

\* what open() does when ReadHeader or seek_subimage(0, 0) fails
OpenFailed(s) == close(s)

OpenResult(s, ret, reads) == [st |-> s, ret |-> ret, userReads |-> reads]

\* DPXInput::open(name, newspec)
open(s, file) ==
    IF ~file.exists THEN OpenResult(s, FALSE, 0)
    ELSE
      LET s1 == [s EXCEPT !.m_stream = StreamOf(file)] IN
      IF ~ReadHeader(file) THEN OpenResult(OpenFailed(s1), FALSE, 0)
      ELSE
        LET s2 == [s1 EXCEPT !.m_header = file.hdr]
            r == seek_subimage(s2, 0, 0)
        IN IF r.ret THEN OpenResult(r.st, TRUE, r.userReads)
           ELSE OpenResult(OpenFailed(r.st), FALSE, r.userReads)

\* DPXInput::open(name, newspec, config)
open_config(s, file, rawcolor) ==
    open([s EXCEPT !.m_rawcolor = rawcolor], file)

\* dpx::QueryRGBBufferSize(): rows of RGB(A) samples a subsampled element
\* expands to, 0 when the conversion works in place
QueryRGBBufferSize(h, subimage, y0, y1) ==
    LET d == ImageDescriptor(h, subimage) IN
    CASE d = "kCbYCrY" -> 3 * (y1 - y0 + 1)
      [] d = "kCbYACrYA" -> 4 * (y1 - y0 + 1)
      [] OTHER -> 0

\* m_dpx.ReadBlock(subimage, ptr, block): false on a missing or truncated
\* stream, an undefined element or a block that leaves the image
ReadBlock(s, subimage, y0, y1) ==
    /\ s.m_stream.open
    /\ ~s.m_stream.short
    /\ subimage >= 0
    /\ subimage < ImageElementCount(s.m_header)
    /\ 0 <= y0
    /\ y0 <= y1
    /\ y1 < s.m_header.height

\* dpx::ConvertToRGB(): false when the component data size is unsupported
ConvertToRGB(h, subimage) ==
    TypeDescOf(ComponentDataSize(h, subimage), DataSign(h, subimage))
        # "INVALID"

ReadResult(s, ret, reads, readBlock, convert) ==
    [st |-> s, ret |-> ret, userReads |-> reads, readBlock |-> readBlock,
     convert |-> convert]

\* whether read_native_scanlines takes the fast path
FastPath(s) == s.m_rawcolor

\* DPXInput::read_native_scanlines(subimage, miplevel, ybegin, yend, z, data)
\* the part of read_native_scanlines after its seek_subimage succeeded,
\* on instance t: the block, the fast path or the read and conversion
ReadAfterSeek(t, reads, subimage, ybegin, yend) ==
    LET y0 == ybegin - t.m_spec.y
        y1 == yend - 1 - t.m_spec.y
    IN IF FastPath(t)
       THEN ReadResult(t, ReadBlock(t, subimage, y0, y1), reads, TRUE, FALSE)
       ELSE
         LET bufsize == IF subimage >= 0
                           /\ subimage < ImageElementCount(t.m_header)
                        THEN QueryRGBBufferSize(t.m_header, subimage, y0, y1)
                        ELSE 0
             u == IF bufsize > 0 THEN [t EXCEPT !.m_decodebuf = bufsize]
                  ELSE t
             got == ReadBlock(u, subimage, y0, y1)
         IN ReadResult(u, got /\ ConvertToRGB(u.m_header, subimage),
                       reads, TRUE, got)

read_native_scanlines(s, subimage, miplevel, ybegin, yend) ==
    LET r == seek_subimage(s, subimage, miplevel) IN
      IF ~r.ret THEN ReadResult(r.st, FALSE, r.userReads, FALSE, FALSE)
      ELSE ReadAfterSeek(r.st, r.userReads, subimage, ybegin, yend)

\* DPXInput::read_native_scanline(subimage, miplevel, y, z, data)
read_native_scanline(s, subimage, miplevel, y) ==
    read_native_scanlines(s, subimage, miplevel, y, y + 1)

(***************************************************************************)
(* The calls a host makes.                                                 *)
(***************************************************************************)
\* subimage arguments: every element index and one on either side
SubimageArgs == -1..MaxElements
\* miplevel arguments of seek_subimage; reads are made at miplevel 0, the
\* only level seek_subimage accepts
MiplevelArgs == {0, 1}
\* first rows of the blocks read: one-row blocks by read_native_scanline,
\* two-row blocks by read_native_scanlines
RowArgs == -1..MaxHeight

\* the record of a call: the selection it found (before), whether it named
\* that selection (same), what it returned, and how often it read the
\* user-data block
Call(op, subimage, r) ==
    [op |-> op, same |-> (subimage = m_subimage), before |-> m_subimage,
     ret |-> r.ret, userReads |-> r.userReads]

\* the calling threads
Threads == {1, 2}

\* the instance's lock is free: no thread is inside read_native_scanlines
Unlocked ==
    [thread |-> 0, pc |-> "idle", subimage |-> -1, ybegin |-> 0,
     m_subimage |-> -1, y |-> 0, m_rawcolor |-> FALSE, m_decodebuf |-> 0]

Install(s) ==
    /\ m_subimage' = s.m_subimage
    /\ m_stream' = s.m_stream
    /\ m_header' = s.m_header
    /\ m_userBuf' = s.m_userBuf
    /\ m_rawcolor' = s.m_rawcolor
    /\ m_decodebuf' = s.m_decodebuf
    /\ m_spec' = s.m_spec
    /\ UNCHANGED family

Count(reads) == userDataRead' = (userDataRead \/ reads > 0)

InitOf(fam) ==
    /\ m_subimage = Constructed.m_subimage
    /\ m_stream = Constructed.m_stream
    /\ m_header = Constructed.m_header
    /\ m_userBuf = Constructed.m_userBuf
    /\ m_rawcolor = Constructed.m_rawcolor
    /\ m_decodebuf = Constructed.m_decodebuf
    /\ m_spec = Constructed.m_spec
    /\ call = [op |-> "none", same |-> FALSE, before |-> -1, ret |-> TRUE,
               userReads |-> 0]
    /\ userDataRead = FALSE
    /\ reader = Unlocked
    /\ family = fam

Init == InitOf("elements")

Open ==
    \E file \in FilesOf(family) :
      LET r == open(Self, file) IN
        /\ ~m_stream.open
        /\ Install(r.st)
        /\ Count(r.userReads)
        /\ call' = Call("open", m_subimage + 1, r)
        /\ UNCHANGED reader

OpenConfig ==
    \E file \in FilesOf(family), rawcolor \in BOOLEAN :
      LET r == open_config(Self, file, rawcolor) IN
        /\ ~m_stream.open
        /\ Install(r.st)
        /\ Count(r.userReads)
        /\ call' = Call("open", m_subimage + 1, r)
        /\ UNCHANGED reader

SeekSubimage ==
    \E subimage \in SubimageArgs, miplevel \in MiplevelArgs :
      LET r == seek_subimage(Self, subimage, miplevel) IN
        /\ Install(r.st)
        /\ Count(r.userReads)
        /\ call' = Call("seek_subimage", subimage, r)
        /\ UNCHANGED reader

ReadNativeScanlines ==
    \E subimage \in SubimageArgs, ybegin \in RowArgs :
      LET r == read_native_scanlines(Self, subimage, 0, ybegin, ybegin + 2)
      IN /\ reader.thread = 0
         /\ Install(r.st)
         /\ Count(r.userReads)
         /\ call' = Call("read_native_scanlines", subimage, r)
         /\ UNCHANGED reader

ReadNativeScanline ==
    \E subimage \in SubimageArgs, y \in RowArgs :
      LET r == read_native_scanline(Self, subimage, 0, y) IN
        /\ reader.thread = 0
        /\ Install(r.st)
        /\ Count(r.userReads)
        /\ call' = Call("read_native_scanlines", subimage, r)
        /\ UNCHANGED reader

Close ==
    /\ Install(close(Self))
    /\ call' = Call("close", m_subimage + 1,
                    [ret |-> TRUE, userReads |-> 0])
    /\ UNCHANGED <<userDataRead, reader>>

Next ==
    \/ Open
    \/ OpenConfig
    \/ SeekSubimage
    \/ ReadNativeScanlines
    \/ ReadNativeScanline
    \/ Close

Spec == Init /\ [][Next]_vars

\* read_native_scanlines step by step, as a thread runs it.
\* lock_guard lock(*this): the thread enters when the lock is free
ReadLock ==
    \E t \in Threads, subimage \in SubimageArgs, ybegin \in RowArgs :
        /\ reader.thread = 0
        /\ reader' = [Unlocked EXCEPT !.thread = t, !.pc = "locked",
                                      !.subimage = subimage,
                                      !.ybegin = ybegin]
        /\ UNCHANGED <<m_subimage, m_stream, m_header, m_userBuf, m_rawcolor,
                       m_decodebuf, m_spec, call, userDataRead, family>>

\* if (!seek_subimage(subimage, miplevel)) return false;
ReadSeek ==
    LET r == seek_subimage(Self, reader.subimage, 0) IN
        /\ reader.pc = "locked"
        /\ Install(r.st)
        /\ Count(r.userReads)
        /\ IF r.ret
           THEN /\ reader' = [reader EXCEPT !.pc = "seeked",
                                  !.m_subimage = r.st.m_subimage,
                                  !.y = r.st.m_spec.y,
                                  !.m_rawcolor = r.st.m_rawcolor,
                                  !.m_decodebuf = r.st.m_decodebuf]
                /\ UNCHANGED call
           ELSE /\ reader' = Unlocked
                /\ call' = Call("read_native_scanlines", reader.subimage, r)

\* the block, the read and the conversion, then the lock is released
ReadFinish ==
    LET r == ReadAfterSeek(Self, 0, reader.subimage, reader.ybegin,
                           reader.ybegin + 1)
    IN  /\ reader.pc = "seeked"
        /\ Install(r.st)
        /\ call' = Call("read_native_scanlines", reader.subimage, r)
        /\ reader' = Unlocked
        /\ UNCHANGED userDataRead

\* the calls of the host's threads: whole calls, and read_native_scanlines
\* step by step
NextThreads ==
    \/ Next
    \/ ReadLock
    \/ ReadSeek
    \/ ReadFinish

InitThreads == InitOf("threads")
SpecThreads == InitThreads /\ [][NextThreads]_vars

\* the same decoder over the files that vary the string fields
InitStrings == InitOf("strings")
SpecStrings == InitStrings /\ [][Next]_vars

\* the same decoder over the files that vary the 32-bit fields
InitInts == InitOf("ints")
SpecInts == InitInts /\ [][Next]_vars

\* the same decoder over the files that vary the format field
InitFormats == InitOf("formats")
SpecFormats == InitFormats /\ [][Next]_vars

(***************************************************************************)
(* Properties.                                                             *)
(***************************************************************************)
\* no file is open: never opened, after a failed open, or after close
IsClosed == ~m_stream.open

\* the blocks a host asks for: <<ybegin, yend>>
Blocks == {<<y, y + n>> : y \in RowArgs, n \in {1, 2}}

\* C1: while the instance is Closed, every scanline read, whatever subimage
\* it names, returns false and reaches neither ReadBlock nor ConvertToRGB.
C1_ClosedReadsFail ==
    IsClosed =>
      \A subimage \in SubimageArgs, b \in Blocks :
        LET r == read_native_scanlines(Self, subimage, 0, b[1], b[2]) IN
          ~r.ret /\ ~r.readBlock /\ ~r.convert

\* C2: seek_subimage(i, 0) with i < 0 or i >= ImageElementCount() returns
\* false and leaves the selection, the spec, the raw-color flag and the
\* user-data cache unchanged.
C2_OutOfRangeSeekFails ==
    \A i \in SubimageArgs :
      (i < 0 \/ i >= ImageElementCount(m_header)) =>
        LET r == seek_subimage(Self, i, 0) IN
          /\ ~r.ret
          /\ r.st.m_subimage = m_subimage
          /\ r.st.m_spec = m_spec
          /\ r.st.m_rawcolor = m_rawcolor
          /\ r.st.m_userBuf = m_userBuf

Readable(file) == file.exists /\ file.magic /\ file.complete
Supported(h, i) ==
    TypeDescOf(ComponentDataSize(h, i), DataSign(h, i)) # "INVALID"
Elements(h) == 0..(ImageElementCount(h) - 1)

\* C3: a file with an unsupported element i and a supported element j # i
\* can be opened, and seek_subimage(j, 0) then succeeds, whether or not
\* selecting i was attempted first.
C3_BadElementFailsOnlyItsSelection ==
    IsClosed =>
      \A file \in FilesOf(family) :
        \A i \in Elements(file.hdr), j \in Elements(file.hdr) :
          (Readable(file) /\ i # j /\ ~Supported(file.hdr, i)
             /\ Supported(file.hdr, j)) =>
            LET r == open(Self, file) IN
              /\ r.ret
              /\ seek_subimage(r.st, j, 0).ret
              /\ seek_subimage(seek_subimage(r.st, i, 0).st, j, 0).ret

\* C4: on an instance opened without a raw-color request, selecting a 4:2:2
\* (CbYCrY) element gives a 3-channel spec and its reads go through
\* ConvertToRGB; opened with the request, it gives the 2 channels CbCr, Y
\* and its reads bypass ConvertToRGB.
C4_ConverterSkippedOnlyOnRequest ==
    IsClosed =>
      \A file \in FilesOf(family), rawcolor \in BOOLEAN :
        \A j \in Elements(file.hdr) :
          LET o == open_config(Self, file, rawcolor)
              q == seek_subimage(o.st, j, 0)
              r == read_native_scanline(q.st, j, 0, q.st.m_spec.y)
          IN (o.ret /\ q.ret /\ ImageDescriptor(file.hdr, j) = "kCbYCrY") =>
               IF rawcolor
               THEN /\ q.st.m_spec.nchannels = 2
                    /\ q.st.m_spec.channelnames = <<"CbCr", "Y">>
                    /\ r.readBlock /\ ~r.convert
               ELSE /\ q.st.m_spec.nchannels = 3
                    /\ r.readBlock /\ r.convert

\* C5: a block read whose rows leave the image (y0 < 0 or y1 > height,
\* counted from the image's y origin) returns false without ReadBlock being
\* invoked.
C5_RowsOutsideImageReadNothing ==
    ~IsClosed =>
      \A subimage \in Elements(m_header), b \in Blocks :
        LET r == read_native_scanlines(Self, subimage, 0, b[1], b[2])
            y0 == b[1] - r.st.m_spec.y
            y1 == b[2] - 1 - r.st.m_spec.y
        IN (y0 < 0 \/ y1 > r.st.m_header.height) => ~r.ret /\ ~r.readBlock

\* C6 as claimed: ReadUserData is called at most once in the instance's
\* life, and a cached blob is never dropped.
UserDataReadOnce ==
    /\ userDataRead => call'.userReads = 0
    /\ m_userBuf # <<>> => m_userBuf' = m_userBuf
C6_UserDataReadOnce == [][UserDataReadOnce]_vars

\* C6 as amended: a call reads the user-data block at most once and only
\* into an empty cache, which it fills; a filled cache changes only by
\* being cleared, by close() or by the close() of a failed open.
UserDataCachedUntilReset ==
    /\ call'.userReads <= 1
    /\ call'.userReads = 1 => m_userBuf = <<>> /\ m_userBuf' # <<>>
    /\ call'.userReads = 0 /\ m_userBuf = <<>> => m_userBuf' = <<>>
    /\ (m_userBuf # <<>> /\ m_userBuf' # m_userBuf) =>
          /\ m_userBuf' = <<>>
          /\ call'.op = "close" \/ (call'.op = "open" /\ ~call'.ret)
C6_UserDataCachedUntilReset == [][UserDataCachedUntilReset]_vars

\* a later selection of another element was served from the filled cache
C6_Witness ==
    /\ call.op = "seek_subimage" /\ call.ret /\ ~call.same
    /\ call.userReads = 0
    /\ m_stream.open /\ userDataRead /\ m_userBuf # <<>>
    /\ "dpx:UserData" \in m_spec.attrs

\* the state a failed open and close() leave: nothing selected, the stream
\* released, the user-data cache empty, the raw-color flag false
ClosedState(s) ==
    /\ s.m_subimage = -1
    /\ ~s.m_stream.open
    /\ s.m_userBuf = <<>>
    /\ ~s.m_rawcolor

\* C7: an open on a Closed instance that fails on the header (bad magic,
\* truncated header) or on selecting subimage 0 returns false and leaves the
\* instance Closed; an open that returns true leaves subimage 0 selected
\* and the spec derived from the header just read.
C7_OpenAllOrNothing ==
    IsClosed =>
      \A file \in FilesOf(family), rawcolor \in BOOLEAN :
        LET r == open_config(Self, file, rawcolor)
            p == open(Self, file)
            Good(x, raw) ==
              IF x.ret
              THEN /\ x.st.m_subimage = 0
                   /\ x.st.m_stream.open
                   /\ x.st.m_header = file.hdr
                   /\ 0 \in Elements(file.hdr) /\ Supported(file.hdr, 0)
                   /\ x.st.m_spec
                        = BuildSpec(file.hdr, 0, raw, x.st.m_userBuf)
              ELSE file.exists => ClosedState(x.st)
        IN /\ Good(r, rawcolor)
           /\ Good(p, m_rawcolor)

\* C8: after close the current subimage, stream, user-data cache, raw-color
\* flag, derived spec and header equal those of a new instance, and a
\* second close changes nothing.
C8_CloseResetsEverything ==
    call.op = "close" =>
      /\ ClosedState(Self)
      /\ m_spec = Constructed.m_spec
      /\ m_header = Constructed.m_header
      /\ close(Self) = Self

\* C9: seek_subimage(i, 0) with element i already selected returns true,
\* changes nothing (spec, raw-color flag, user-data cache) and reads nothing.
C9_SeekSelectedIsNoop ==
    \A i \in SubimageArgs :
      (i = m_subimage /\ i >= 0) =>
        LET r == seek_subimage(Self, i, 0) IN
          r.ret /\ r.st = Self /\ r.userReads = 0

\* the selected element was selected again
C9_Witness ==
    /\ call.op = "seek_subimage" /\ call.same /\ call.ret
    /\ m_subimage >= 0 /\ m_stream.open

\* the attribute each string field feeds
AttrOfField ==
    [f \in StrFields |->
       CASE f = "copyright" -> "Copyright"
         [] f = "creator" -> "Software"
         [] f = "project" -> "DocumentName"
         [] f = "creationTimeDate" -> "DateTime"
         [] f = "version" -> "dpx:Version"
         [] f = "format" -> "dpx:Format"
         [] f = "frameId" -> "dpx:FrameId"
         [] f = "slateInfo" -> "dpx:SlateInfo"
         [] f = "sourceImageFileName" -> "dpx:SourceImageFileName"
         [] f = "inputDevice" -> "dpx:InputDevice"
         [] f = "inputDeviceSerialNumber" -> "dpx:InputDeviceSerialNumber"
         [] f = "filmManufacturingIdCode" -> "smpte:KeyCode"
         [] f = "sourceTimeDate" -> "dpx:SourceDateTime"]

\* C10: in the spec seek_subimage produces, the attribute of a string field
\* whose first byte is 0xFF is absent, and that of a field holding text is
\* present.
C10_UnsetStringsAreAbsent ==
    (call.op = "open" /\ call.ret /\ call.before = -1) =>
      /\ \A f \in StrFields :
           /\ m_header.strs[f] = UnsetByte => AttrOfField[f] \notin m_spec.attrs
           /\ StrSet(m_header.strs[f]) => AttrOfField[f] \in m_spec.attrs
      /\ Description(m_header, 0) = UnsetByte
           => "ImageDescription" \notin m_spec.attrs
      /\ StrSet(Description(m_header, 0))
           => "ImageDescription" \in m_spec.attrs
      /\ m_header.strs["filmManufacturingIdCode"] = UnsetByte
           => "dpx:FilmEdgeCode" \notin m_spec.attrs
      /\ StrSet(m_header.strs["filmManufacturingIdCode"])
           => "dpx:FilmEdgeCode" \in m_spec.attrs

\* the spec a successful open has just produced
JustOpened == call.op = "open" /\ call.ret /\ call.before = -1

\* C11: in the spec seek_subimage produces, a 32-bit field equal to
\* 0xFFFFFFFF yields no attribute and no emitted value is made of a
\* 0xFFFFFFFF field; a field holding another value yields its attribute
\* with that value (offsets and original sizes: the spec's x, y, full_width
\* and full_height, which keep their defaults when the field is unset).
C11_Unset32NeverSurfaced ==
    JustOpened =>
      LET h == m_header
          Named(a) == {p \in m_spec.values : p[1] = a}
      IN /\ \A p \in m_spec.values :
                \A k \in 1..Len(p[2]) : p[2][k] # Unset32
         /\ \A f \in IntFields :
                IF IntField(h, f) = Unset32 THEN Named("dpx:" \o f) = {}
                ELSE Named("dpx:" \o f) = {<<"dpx:" \o f, <<IntField(h, f)>>>>}
         /\ \A f \in ElemIntFields :
                IF ElemIntField(h, 0, f) = Unset32 THEN Named("dpx:" \o f) = {}
                ELSE Named("dpx:" \o f)
                       = {<<"dpx:" \o f, <<ElemIntField(h, 0, f)>>>>}
         /\ IF h.ints["timeCode"] = Unset32
            THEN Named("smpte:TimeCode") = {} /\ Named("dpx:TimeCode") = {}
            ELSE Named("smpte:TimeCode") # {} /\ Named("dpx:TimeCode") # {}
         /\ IF h.ints["userBits"] = Unset32 THEN Named("dpx:UserBits") = {}
            ELSE Named("dpx:UserBits")
                   = {<<"dpx:UserBits", <<h.ints["userBits"]>>>>}
         /\ m_spec.x = IF h.ints["xOffset"] = Unset32 THEN 0
                       ELSE h.ints["xOffset"]
         /\ m_spec.y = IF h.yOffset = Unset32 THEN 0 ELSE h.yOffset
         /\ m_spec.full_width
              = IF h.ints["xOriginalSize"] = Unset32 THEN Width(h)
                ELSE h.ints["xOriginalSize"]
         /\ m_spec.full_height
              = IF h.ints["yOriginalSize"] = Unset32 THEN Height(h)
                ELSE h.ints["yOriginalSize"]

\* the perforation constants of the KeyCode the open has just produced
\* are those of format name `name`
PerfsOf(name, perfs) ==
    (JustOpened /\ m_header.format = name) =>
        m_spec.keycode = perfs

\* C12: the KeyCode's perforation constants follow the format field:
\* "Academy" gives (4, 64), "8kimax" (15, 120), "VistaVision" 8 and
\* "3perf" 3 perforations per frame, an unrecognized name (4, 64).
C12_KeycodePerfsByFormat ==
    /\ PerfsOf(<<"A", "c", "a", "d", "e", "m", "y">>, <<4, 64>>)
    /\ PerfsOf(<<"8", "k", "i", "m", "a", "x">>, <<15, 120>>)
    /\ PerfsOf(<<"V", "i", "s", "t", "a", "V", "i", "s", "i", "o", "n">>,
               <<8, 64>>)
    /\ PerfsOf(<<"3", "p", "e", "r", "f">>, <<3, 64>>)
    /\ PerfsOf(<<"S", "u", "p", "e", "r", "8">>, <<4, 64>>)

\* C13: while a thread is inside read_native_scanlines, past its seek, the
\* current subimage, the spec's y origin, the raw-color flag and the decode
\* buffer are as that seek left them: no other thread's call changes them.
C13_ReadIsNotInterleaved ==
    reader.pc = "seeked" =>
      /\ m_subimage = reader.m_subimage
      /\ m_spec.y = reader.y
      /\ m_rawcolor = reader.m_rawcolor
      /\ m_decodebuf = reader.m_decodebuf

\* C14: on an open file, a seek_subimage(i, 0) that fails on element i's
\* component data size leaves the current subimage and the spec as they
\* were; a retry fails again, and a read of element i never reaches
\* ReadBlock.
C14_FailedSeekLeavesSelection ==
    ~IsClosed =>
      \A i \in Elements(m_header), b \in Blocks :
        (i # m_subimage /\ ~Supported(m_header, i)) =>
          LET r == seek_subimage(Self, i, 0) IN
            /\ ~r.ret
            /\ r.st.m_subimage = m_subimage
            /\ r.st.m_spec = m_spec
            /\ ~seek_subimage(r.st, i, 0).ret
            /\ ~read_native_scanlines(r.st, i, 0, b[1], b[2]).readBlock

====
